---- MODULE Spec2Model ----
(***************************************************************************)
(* Model of src/pages/DisplayPage.jsx: one view instance of DisplayPage,   *)
(* the loads (runs of fetchPageAndLinks) it has started, and the backend   *)
(* rows those loads read.                                                  *)
(*                                                                         *)
(* The view variables hold the value last passed to the matching useState  *)
(* setter.  A load is one run of the async function fetchPageAndLinks; it  *)
(* suspends at each await, so every action below is the synchronous code   *)
(* between two awaits of one load.                                         *)
(***************************************************************************)
EXTENDS Integers, Sequences, FiniteSets, TLC

\* Number of loads one view instance starts in a behaviour.
MaxLoads == 2

VARIABLES
    slug,       \* useParams().slug
    page,       \* useState(null)   line 22
    links,      \* useState([])     line 23
    loading,    \* useState(true)   line 24
    error,      \* useState(null)   line 25
    user,       \* useState(null)   line 26
    avatarUrl,  \* useState(null)   line 27
    mounted,    \* the component instance is mounted
    location,   \* the router's current path, as set by navigate()
    loads,      \* the runs of fetchPageAndLinks started so far
    session,    \* what supabase.auth.getUser() resolves data.user to
    lateUpdates \* the useState setters called after the view was unmounted

vars == <<slug, page, links, loading, error, user, avatarUrl, mounted,
          location, loads, session, lateUpdates>>

view == <<page, links, loading, error, user, avatarUrl>>

-----------------------------------------------------------------------------
(* Values *)

NoUser == 0
NoUrl == ""
NoError == ""
NoPage == [id |-> 0, slug |-> "", user_id |-> 0, title |-> ""]

ErrorMsg == "Failed to load page. Please try again."
NoRowsCode == "PGRST116"
OtherCode == "500"
NotFoundRoute == "/404"
ProfileRoute == "/profile"
SlugRoute == "/:slug"

(* Backend rows read by the view.  Slug "x" has no page; user 2 has no     *)
(* image row; the links of page 1 are stored out of creation order.        *)
Slugs == {"a", "b", "x"}

PagesTable ==
    { [id |-> 1, slug |-> "a", user_id |-> 1, title |-> "A"],
      [id |-> 2, slug |-> "b", user_id |-> 2, title |-> "B"] }

ImagesTable == { [user_id |-> 1, image_url |-> "img1"] }

LinksTable ==
    { [id |-> 1, page_id |-> 1, created_at |-> 3],
      [id |-> 2, page_id |-> 1, created_at |-> 1],
      [id |-> 3, page_id |-> 2, created_at |-> 2] }

-----------------------------------------------------------------------------
(* The queries, lines 34-38, 53-57, 66-70.  A result is [data, code]; code *)
(* "" means no error.                                                      *)

PageResults(s) ==
    LET rows == {p \in PagesTable : p.slug = s}
    IN  (IF rows = {}
            THEN {[data |-> NoPage, code |-> NoRowsCode]}
            ELSE {[data |-> p, code |-> ""] : p \in rows})
        \cup {[data |-> NoPage, code |-> OtherCode]}

AvatarResults(uid) ==
    LET rows == {r \in ImagesTable : r.user_id = uid}
    IN  (IF rows = {}
            THEN {[data |-> NoUrl, code |-> NoRowsCode]}
            ELSE {[data |-> r.image_url, code |-> ""] : r \in rows})
        \cup {[data |-> NoUrl, code |-> OtherCode]}

RECURSIVE SortAsc(_)
SortAsc(rows) ==
    IF rows = {} THEN <<>>
    ELSE LET first == CHOOSE r \in rows :
                          \A q \in rows : r.created_at <= q.created_at
         IN  <<first>> \o SortAsc(rows \ {first})

\* .from('links').select('*').eq('page_id', id).order('created_at', asc)
LinksQuery(pid) == SortAsc({l \in LinksTable : l.page_id = pid})

LinksResults(pid) ==
    {[data |-> LinksQuery(pid), code |-> ""], [data |-> <<>>, code |-> OtherCode]}

-----------------------------------------------------------------------------
(* Loads *)

Lookups == <<"page", "avatar", "links", "user">>
InFlightPcs == {"page", "avatar", "links", "user"}
TerminalPcs == {"redirected", "failed", "done"}

NewLoad(s) ==
    [slug |-> s, pc |-> "page", pageData |-> NoPage, avatarData |-> NoUrl,
     calls |-> <<"page">>]

InFlight(i) == i \in DOMAIN loads /\ loads[i].pc \in InFlightPcs
Terminal(i) == i \in DOMAIN loads /\ loads[i].pc \in TerminalPcs

\* The load moves to its next await and issues that lookup.
Issue(i, lookup) ==
    loads' = [loads EXCEPT ![i].pc = lookup,
                           ![i].calls = Append(@, lookup)]

\* Faulty variant of Cleanup: a cleanup that aborts the loads in flight.
CleanupAbort(ls) ==
    [i \in DOMAIN ls |->
        IF ls[i].pc \in InFlightPcs THEN [ls[i] EXCEPT !.pc = "aborted"] ELSE ls[i]]

\* The effect of lines 29-88 returns no cleanup function: the loads already
\* started are left as they are when the effect re-runs or the view unmounts.
Cleanup(ls) == ls

-----------------------------------------------------------------------------
(* Rendering, lines 90-94 and 106-193 *)

IsOwner(u, p) == u # NoUser /\ u = p.user_id

UIState ==
    IF loading THEN "loading"
    ELSE IF error # NoError THEN "error"
    ELSE IF page = NoPage THEN "not-found"
    ELSE "loaded"

\* What the mounted view renders.
Rendered ==
    [kind   |-> IF mounted THEN UIState ELSE "none",
     text   |-> IF ~mounted THEN ""
                ELSE IF UIState = "loading" THEN "Loading..."
                ELSE IF UIState = "error" THEN error
                ELSE IF UIState = "not-found" THEN "Page not found"
                ELSE page.title,
     page   |-> IF mounted /\ UIState = "loaded" THEN page ELSE NoPage,
     avatar |-> IF mounted /\ UIState = "loaded" THEN avatarUrl ELSE NoUrl,
     links  |-> IF mounted /\ UIState = "loaded" THEN links ELSE <<>>,
     edit   |-> mounted /\ UIState = "loaded" /\ IsOwner(user, page),
     click  |-> mounted /\ UIState = "loaded" /\ IsOwner(user, page)]

\* A setter called while the view is unmounted is recorded as a late update.
Late(setters) == IF mounted THEN lateUpdates ELSE lateUpdates \cup setters

-----------------------------------------------------------------------------
(* Actions *)

Init ==
    /\ slug \in Slugs
    /\ page = NoPage
    /\ links = <<>>
    /\ loading = TRUE
    /\ error = NoError
    /\ user = NoUser
    /\ avatarUrl = NoUrl
    /\ mounted = TRUE
    /\ location = SlugRoute
    /\ loads = <<>>
    /\ session \in {NoUser, 1}
    /\ lateUpdates = {}

\* useEffect(..., [slug, navigate]): runs after mount for the initial slug and
\* again whenever the route's slug changes on the same instance.  Line 31:
\* setLoading(true); lines 34-38: the page lookup is issued.
Effect(s) ==
    /\ mounted
    /\ Len(loads) < MaxLoads
    /\ IF loads = <<>> THEN s = slug ELSE s # slug
    /\ slug' = s
    /\ location' = SlugRoute
    /\ loading' = TRUE
    /\ loads' = Append(Cleanup(loads), NewLoad(s))
    /\ UNCHANGED <<page, links, error, user, avatarUrl, mounted, session,
                   lateUpdates>>

\* The router removes the view (navigation to another route).
Unmount ==
    /\ mounted
    /\ mounted' = FALSE
    /\ loads' = Cleanup(loads)
    /\ UNCHANGED <<slug, view, location, session, lateUpdates>>

\* Faulty variant of NotFoundBranch: the no-rows error also reaches the catch.
NotFoundBranchThrow(i) ==
    /\ location' = NotFoundRoute
    /\ error' = ErrorMsg
    /\ loading' = FALSE
    /\ lateUpdates' = Late({"error", "loading"})
    /\ loads' = [loads EXCEPT ![i].pc = "redirected"]
    /\ UNCHANGED <<slug, page, links, user, avatarUrl, mounted, session>>

\* Faulty variant of NotFoundBranch: the early return skips the finally.
NotFoundBranchNoFinally(i) ==
    /\ location' = NotFoundRoute
    /\ loads' = [loads EXCEPT ![i].pc = "redirected"]
    /\ UNCHANGED <<slug, view, mounted, session, lateUpdates>>

\* Lines 41-45 and 82-84: navigate('/404'); return; finally setLoading(false).
NotFoundBranch(i) ==
    /\ location' = NotFoundRoute
    /\ loading' = FALSE
    /\ lateUpdates' = Late({"loading"})
    /\ loads' = [loads EXCEPT ![i].pc = "redirected"]
    /\ UNCHANGED <<slug, page, links, error, user, avatarUrl, mounted, session>>

\* Faulty variant of Fail: the failure is treated like a missing page.
FailRedirect(i) ==
    /\ location' = NotFoundRoute
    /\ loading' = FALSE
    /\ lateUpdates' = Late({"loading"})
    /\ loads' = [loads EXCEPT ![i].pc = "failed"]
    /\ UNCHANGED <<slug, page, links, error, user, avatarUrl, mounted, session>>

\* Lines 79-84: catch sets the generic error, finally clears loading.
Fail(i) ==
    /\ error' = ErrorMsg
    /\ loading' = FALSE
    /\ lateUpdates' = Late({"error", "loading"})
    /\ loads' = [loads EXCEPT ![i].pc = "failed"]
    /\ UNCHANGED <<slug, page, links, user, avatarUrl, mounted, location, session>>

\* Faulty variant of PageOk: the avatar lookup is skipped.
PageOkLinksFirst(i, r) ==
    /\ page' = r.data
    /\ lateUpdates' = Late({"page"})
    /\ loads' = [loads EXCEPT ![i].pc = "links",
                              ![i].pageData = r.data,
                              ![i].calls = Append(@, "links")]
    /\ UNCHANGED <<slug, links, loading, error, user, avatarUrl, mounted,
                   location, session>>

\* Lines 50-57: setPage(pageData), then the avatar lookup is issued.
PageOk(i, r) ==
    /\ page' = r.data
    /\ lateUpdates' = Late({"page"})
    /\ loads' = [loads EXCEPT ![i].pc = "avatar",
                              ![i].pageData = r.data,
                              ![i].calls = Append(@, "avatar")]
    /\ UNCHANGED <<slug, links, loading, error, user, avatarUrl, mounted,
                   location, session>>

\* Lines 34-57: the page lookup of load i completes with result r.
PageResponse(i, r) ==
    /\ InFlight(i)
    /\ loads[i].pc = "page"
    /\ r \in PageResults(loads[i].slug)
    /\ IF r.code # ""
          THEN IF r.code = NoRowsCode THEN NotFoundBranch(i) ELSE Fail(i)
          ELSE PageOk(i, r)

\* Lines 59-70: the avatar lookup of load i completes; an error is only
\* logged, a row sets the avatar; then the link lookup is issued.
AvatarResponse(i, r) ==
    /\ InFlight(i)
    /\ loads[i].pc = "avatar"
    /\ r \in AvatarResults(loads[i].pageData.user_id)
    /\ IF r.code # ""
          THEN UNCHANGED <<avatarUrl, lateUpdates>>
          ELSE /\ avatarUrl' = r.data
               /\ lateUpdates' = Late({"avatar"})
    /\ loads' = [loads EXCEPT ![i].pc = "links",
                              ![i].avatarData = r.data,
                              ![i].calls = Append(@, "links")]
    /\ UNCHANGED <<slug, page, links, loading, error, user, mounted, location,
                   session>>

\* Lines 72-76: the link lookup of load i completes: an error is thrown to
\* the catch, rows are stored and the identity lookup is issued.
LinksResponse(i, r) ==
    /\ InFlight(i)
    /\ loads[i].pc = "links"
    /\ r \in LinksResults(loads[i].pageData.id)
    /\ IF r.code # ""
          THEN Fail(i)
          ELSE /\ links' = r.data
               /\ lateUpdates' = Late({"links"})
               /\ Issue(i, "user")
               /\ UNCHANGED <<slug, page, loading, error, user, avatarUrl,
                              mounted, location, session>>

\* Lines 76-84: getUser() completes; setUser(user); finally setLoading(false).
UserResponse(i) ==
    /\ InFlight(i)
    /\ loads[i].pc = "user"
    /\ user' = session
    /\ loading' = FALSE
    /\ lateUpdates' = Late({"user", "loading"})
    /\ loads' = [loads EXCEPT ![i].pc = "done"]
    /\ UNCHANGED <<slug, page, links, error, avatarUrl, mounted, location,
                   session>>

\* Some lookup of load i completes.
Respond(i) ==
    \/ \E r \in PageResults(loads[i].slug) : PageResponse(i, r)
    \/ \E r \in AvatarResults(loads[i].pageData.user_id) : AvatarResponse(i, r)
    \/ \E r \in LinksResults(loads[i].pageData.id) : LinksResponse(i, r)
    \/ UserResponse(i)

\* Lines 90-94: a click on the rendered avatar.
handleAvatarClick ==
    /\ Rendered.kind = "loaded"
    /\ location' = IF IsOwner(user, page) THEN ProfileRoute ELSE location
    /\ UNCHANGED <<slug, view, mounted, loads, session, lateUpdates>>

Next ==
    \/ \E s \in Slugs : Effect(s)
    \/ Unmount
    \/ \E i \in DOMAIN loads : Respond(i)
    \/ handleAvatarClick

Spec == Init /\ [][Next]_vars

\* Every network call a load issues eventually completes.
FairSpec ==
    Spec /\ \A i \in 1..MaxLoads : WF_vars(i \in DOMAIN loads /\ Respond(i))

-----------------------------------------------------------------------------
(* Properties *)

LoadIds == 1..MaxLoads

NoRows == [data |-> NoPage, code |-> NoRowsCode]
PageFailure == [data |-> NoPage, code |-> OtherCode]
LinksFailure == [data |-> <<>>, code |-> OtherCode]

LastLoad == Len(loads)
NoneInFlight == \A i \in DOMAIN loads : ~InFlight(i)

\* C1 (as stated): once the load of a slug without a page has finished, the
\* view has navigated to /404 and renders nothing of its own.
C1_RendersNothingElse ==
    (loads # <<>> /\ loads[LastLoad].pc = "redirected") => Rendered.kind = "none"

\* C1 (amended): a page lookup answered "no rows" (PGRST116) makes the load
\* navigate to /404 and end; the load writes no error, page, avatar, links or
\* user and only clears the loading flag; a view that is still mounted and
\* holds no error and no page then renders its own "Page not found"
\* placeholder, never the generic error message or page content.
C1_NotFoundRedirect ==
    [][\A i \in LoadIds :
        PageResponse(i, NoRows) =>
            /\ location' = NotFoundRoute
            /\ loads'[i].pc = "redirected"
            /\ loads'[i].calls = <<"page">>
            /\ UNCHANGED <<page, links, error, user, avatarUrl>>
            /\ loading' = FALSE
            /\ (mounted' /\ error' = NoError /\ page' = NoPage) =>
                  /\ Rendered'.kind = "not-found"
                  /\ Rendered'.text = "Page not found"]_vars

C1_Witness ==
    /\ mounted
    /\ loads # <<>> /\ loads[LastLoad].pc = "redirected"
    /\ location = NotFoundRoute
    /\ Rendered.kind = "not-found"

NoRepeatedLookup ==
    \A i \in DOMAIN loads :
        \A j, k \in DOMAIN loads[i].calls :
            j # k => loads[i].calls[j] # loads[i].calls[k]

\* C2: a fatal failure of a load (page lookup failing with a code other than
\* "no rows", or link lookup failing) sets the generic error message, which a
\* mounted view then shows, and does not navigate; the failed load issues no
\* further lookup, and no load issues a lookup twice.
C2_FatalFailure ==
    [][/\ \A i \in LoadIds :
            (PageResponse(i, PageFailure) \/ LinksResponse(i, LinksFailure)) =>
                /\ error' = ErrorMsg
                /\ mounted' => (Rendered'.kind = "error" /\ Rendered'.text = ErrorMsg)
                /\ location' = location
                /\ loads'[i].pc = "failed"
                /\ loads'[i].calls = loads[i].calls
       /\ \A i \in DOMAIN loads :
            loads[i].pc = "failed" => loads'[i] = loads[i]
       /\ NoRepeatedLookup']_vars

C2_Witness ==
    /\ mounted
    /\ \E i \in DOMAIN loads :
          loads[i].pc = "failed" /\ loads[i].calls = <<"page", "avatar", "links">>
    /\ \E i \in DOMAIN loads :
          loads[i].pc = "failed" /\ loads[i].calls = <<"page">>
    /\ Rendered.kind = "error"
    /\ location # NotFoundRoute

\* C3: when the load for the current slug found the page but no avatar (no
\* row or an error) and nothing failed fatally, it has gone on to the link
\* and identity lookups and the view is loaded with no avatar image and no
\* error.
C3_AvatarFailureNoImage ==
    (/\ mounted
     /\ NoneInFlight
     /\ loads # <<>>
     /\ loads[LastLoad].pc = "done"
     /\ loads[LastLoad].avatarData = NoUrl
     /\ \A i \in DOMAIN loads : loads[i].pc # "failed")
    => /\ loads[LastLoad].calls = Lookups
       /\ error = NoError
       /\ Rendered.kind = "loaded"
       /\ Rendered.avatar = NoUrl

\* C4: wherever page content is rendered, the edit affordance and the
\* avatar-click navigation are present exactly when the authenticated
\* identity is the owner of the displayed page.
C4_EditIffOwner ==
    Rendered.kind = "loaded" =>
        /\ Rendered.edit <=> (session # NoUser /\ session = Rendered.page.user_id)
        /\ Rendered.click <=> (session # NoUser /\ session = Rendered.page.user_id)

\* C5: wherever page content is rendered, the rendered links are exactly the
\* link rows of the displayed page, oldest first.
C5_LinksOfDisplayedPage ==
    Rendered.kind = "loaded" => Rendered.links = LinksQuery(Rendered.page.id)

\* C6: the view is in one of the four UI states, and without a change of
\* slug it leaves only the loading state.
C6_TerminalStates ==
    [][/\ UIState' \in {"loading", "error", "not-found", "loaded"}
       /\ (mounted /\ mounted' /\ slug' = slug /\ Len(loads') = Len(loads)) =>
             (UIState = "loading" \/ UIState' = UIState)]_vars

\* C7 (as stated): at most one network call of the view is in flight.
C7_OneCallInFlight ==
    Cardinality({i \in DOMAIN loads : InFlight(i)}) <= 1

\* C7 (amended): within one load the lookups are issued one after another
\* in the order page, avatar, links, identity, each after the previous one
\* completed, and avatar and links only after the page lookup returned the
\* page row of the load's slug; calls of different loads may overlap.
C7_SequentialPerLoad ==
    \A i \in DOMAIN loads :
        LET c == loads[i].calls
        IN  /\ Len(c) \in 1..Len(Lookups)
            /\ c = SubSeq(Lookups, 1, Len(c))
            /\ InFlight(i) => loads[i].pc = c[Len(c)]
            /\ Len(c) >= 2 =>
                  /\ loads[i].pageData \in PagesTable
                  /\ loads[i].pageData.slug = loads[i].slug

C7_Witness ==
    /\ Cardinality({i \in DOMAIN loads : InFlight(i)}) = 2
    /\ \E i \in DOMAIN loads : loads[i].pc = "user" /\ loads[i].calls = Lookups

\* C8: unmounting leaves every load as it is; a load in flight at that time
\* still runs to its end and calls its setters, the final setLoading(false)
\* included, on the unmounted view.
C8_NoCancellation ==
    /\ [][(mounted /\ ~mounted') => loads' = loads]_vars
    /\ \A i \in LoadIds :
          (~mounted /\ InFlight(i)) ~> (Terminal(i) /\ "loading" \in lateUpdates)

C8_Witness ==
    /\ ~mounted
    /\ \E i \in DOMAIN loads : loads[i].pc = "done"
    /\ lateUpdates = {"page", "avatar", "links", "user", "loading"}

\* What the load l, taken alone, leaves on the screen.
ShowsOutcome(l) ==
    CASE l.pc = "redirected" -> Rendered.kind = "not-found"
      [] l.pc = "failed"     -> Rendered.kind = "error"
      [] l.pc = "done"       -> /\ Rendered.kind = "loaded"
                                /\ Rendered.page = l.pageData
                                /\ Rendered.avatar = l.avatarData
                                /\ Rendered.links = LinksQuery(l.pageData.id)
      [] OTHER               -> FALSE

\* C9: once no load is in flight, a mounted view shows the outcome of the
\* most recently started load.
C9_ShowsCurrentSlug ==
    (mounted /\ loads # <<>> /\ NoneInFlight) =>
        /\ loads[LastLoad].slug = slug
        /\ ShowsOutcome(loads[LastLoad])

\* C10: the step that ends a load clears the loading flag, an ended load
\* does nothing more, the loading flag is set only while the most recently
\* started load is in flight, and under fair completion of the network calls
\* every load in flight ends with the flag cleared and the loading indicator
\* gone.
C10_LoadingCleared ==
    /\ [][\A i \in DOMAIN loads :
            /\ (InFlight(i) /\ loads'[i].pc \in TerminalPcs) => loading' = FALSE
            /\ Terminal(i) => loads'[i] = loads[i]]_vars
    /\ []((loading /\ loads # <<>>) => InFlight(LastLoad))
    /\ \A i \in LoadIds :
          InFlight(i) ~> (Terminal(i) /\ ~loading /\ Rendered.kind # "loading")

C10_Witness ==
    /\ mounted
    /\ ~loading
    /\ {loads[i].pc : i \in DOMAIN loads} = {"redirected", "failed"}

====
